---- MODULE Spec2Model ----
(***************************************************************************)
(* Access-time accounting of proxy/router/src/access.rs: a Node pairs a    *)
(* value with a last_access instant, Node::access lends the Node to an     *)
(* Access guard together with a time source, and dropping the guard stores *)
(* the time source's reading in the Node.                                  *)
(***************************************************************************)
EXTENDS Integers, Sequences, FiniteSets, TLC

\* Instants are 0..MaxTime; a clock that has reached MaxTime stops advancing.
MaxTime == 3
Times == 0..MaxTime
\* The instant every clock reports before it is advanced (Clock::default()).
Epoch == 0
\* Durations a clock is advanced by.
Durations == {1, 2}
\* Payloads of Node<T>.
Values == {123, 124}
\* The Nodes of the owning container.
Nodes == {"a", "b"}
\* The time sources (implementations of Now) handed to Node::access.
Sources == {"clock", "other"}
\* The clock the container hands to every access.
Shared == {"clock"}
\* The ways control leaves the scope that holds a guard.
ExitPaths == {"scope_end", "early_return", "unwind"}

NoValue == "no_value"
NoTime == "no_time"
NoNode == "no_node"
NoSource == "no_source"
NoExit == "no_exit"

VARIABLES
    node,     \* node[n]: the Node struct, [value, last_access]
    clock,    \* clock[s]: the instant time source s currently reports
    guard,    \* guard[n]: the live Access guards that borrow Node n
    origin,   \* history: what stored node[n].last_access, and the instant stored
    last,     \* history: the operation performed by the last step
    elapsed,  \* history: elapsed[s], the sum of the durations s was advanced by
    order     \* history: the order in which the live guards were made

vars == <<node, clock, guard, origin, last, elapsed, order>>

----------------------------------------------------------------------------
\* The functions of the source.

\* Now::now
Now(s) == clock[s]

\* Mutant of NodeNew: the constructor ignores the timestamp it is given.
NodeNewUnstamped(value, last_access) == [value |-> value, last_access |-> 0]

\* Node::new
NodeNew(value, last_access) == [value |-> value, last_access |-> last_access]

\* Node::last_access
NodeLastAccess(nd) == nd.last_access

\* Deref for Node
NodeDeref(nd) == nd.value

\* Mutant of NodeDerefMut: a write through the Node refreshes its timestamp.
NodeDerefMutTouch(nd, v) == [value |-> v, last_access |-> Now("clock")]

\* DerefMut for Node, and an assignment through the reference
NodeDerefMut(nd, v) == [nd EXCEPT !.value = v]

\* Mutant of AccessLastAccess: the guard reports a fresh reading.
AccessLastAccessFresh(nd) == Now("clock")

\* Access::last_access: self.node.last_access
AccessLastAccess(nd) == nd.last_access

\* Deref for Access: &self.node, coerced through Deref for Node
AccessDeref(nd) == NodeDeref(nd)

\* Mutant of AccessDerefMut: a write through the guard refreshes the timestamp.
AccessDerefMutTouch(nd, v) == [value |-> v, last_access |-> Now("clock")]

\* Mutant of AccessDerefMut: the guard hands out a copy of the value.
AccessDerefMutCopy(nd, v) == nd

\* DerefMut for Access: &mut self.node, coerced through DerefMut for Node
AccessDerefMut(nd, v) == NodeDerefMut(nd, v)

\* Mutant of AccessNew: the guard keeps the default clock, not the source given.
AccessNewDefaultClock(nd, s) ==
    [now |-> "clock", before |-> nd.last_access, advanced |-> FALSE, written |-> <<>>]

\* The Access struct Node::access builds. now is its time source; the Node
\* it borrows is the index of guard. before, advanced and written are
\* history: the Node's timestamp when the access began, whether the source's
\* reading has changed since, and the last value stored through the guard
\* (<<>> while none was).
AccessNew(nd, s) ==
    [now |-> s, before |-> nd.last_access, advanced |-> FALSE, written |-> <<>>]

\* Mutant of DropStores: the store is skipped while unwinding.
DropStoresUnlessUnwinding(g, how) == IF how = "unwind" THEN <<>> ELSE <<Now(g.now)>>

\* The instants Drop::drop assigns to self.node.last_access, in order, when
\* the guard's scope is left by path how: one assignment, on every path.
DropStores(g, how) == <<Now(g.now)>>

\* Mutant of AccessDrop: the guard stores the timestamp it saw when it was made.
AccessDropStale(nd, g, how) == [nd EXCEPT !.last_access = g.before]

\* Mutant of AccessDrop: the guard stores an expiry, one tick after the reading.
AccessDropAhead(nd, g, how) == [nd EXCEPT !.last_access = Now(g.now) + 1]

\* Mutant of AccessDrop: the guard stores the idle time, not the instant.
AccessDropIdle(nd, g, how) == [nd EXCEPT !.last_access = Now(g.now) - g.before]

\* Drop for Access
AccessDrop(nd, g, how) ==
    LET stores == DropStores(g, how) IN
    IF stores = <<>> THEN nd ELSE [nd EXCEPT !.last_access = stores[Len(stores)]]

\* Mutant of Borrowable: the borrow is not given back when the guard is dropped.
BorrowNotReturned(n) == guard[n] = <<>> /\ origin[n].by = "new"

\* Mutant of Borrowable: a second borrow of a lent Node is let through.
BorrowUnchecked(n) == Len(guard[n]) < 2

\* The exclusive borrow &'a mut self taken by Node::access and kept by the
\* guard: the Node can be used or borrowed again only when no guard holds it.
Borrowable(n) == guard[n] = <<>>

RemoveAt(seq, i) == SubSeq(seq, 1, i - 1) \o SubSeq(seq, i + 1, Len(seq))

----------------------------------------------------------------------------
\* History records.

Quiet ==
    [op |-> "none", node |-> NoNode, now |-> NoSource, result |-> NoValue,
     exit |-> NoExit, stores |-> 0, before |-> NoTime, advanced |-> FALSE,
     written |-> <<>>, again |-> FALSE, prev |-> NoSource]

\* held: the Nodes that have a live guard, in the order the guards were made;
\* passed[n]: the Nodes that had a guard made and released while the guard now
\* on n was live; done: passed[n] of the guard the last step released.
Unordered == [held |-> <<>>, passed |-> [n \in Nodes |-> {}], done |-> {}]

Did(op, n, s, r) == [Quiet EXCEPT !.op = op, !.node = n, !.now = s, !.result = r]

----------------------------------------------------------------------------
\* Every Node has been constructed, with any value and any timestamp.
Init ==
    /\ node \in [Nodes -> {NodeNew(v, t) : v \in Values, t \in Times}]
    /\ clock = [s \in Sources |-> Epoch]
    /\ guard = [n \in Nodes |-> <<>>]
    /\ origin = [n \in Nodes |-> [by |-> "new", now |-> NoSource,
                                  stamp |-> node[n].last_access]]
    /\ last = Quiet
    /\ elapsed = [s \in Sources |-> 0]
    /\ order = Unordered

\* node = Node::new(v, t): the container replaces the entry
New(n, v, t) ==
    /\ Borrowable(n)
    /\ node' = [node EXCEPT ![n] = NodeNew(v, t)]
    /\ origin' = [origin EXCEPT ![n] = [by |-> "new", now |-> NoSource, stamp |-> t]]
    /\ last' = Quiet
    /\ UNCHANGED <<clock, guard, elapsed>>

\* Mutant of Access: the timestamp is refreshed when the access begins.
AccessTouch(n, s) ==
    /\ Borrowable(n)
    /\ guard' = [guard EXCEPT ![n] = Append(@, AccessNew(node[n], s))]
    /\ node' = [node EXCEPT ![n].last_access = Now(s)]
    /\ last' = Quiet
    /\ UNCHANGED <<clock, origin, elapsed>>

\* node.access(&s)
Access(n, s) ==
    /\ Borrowable(n)
    /\ guard' = [guard EXCEPT ![n] = Append(@, AccessNew(node[n], s))]
    /\ last' = Quiet
    /\ UNCHANGED <<node, clock, origin, elapsed>>

\* access.last_access()
ReadAccessLastAccess(n) ==
    /\ \E i \in DOMAIN guard[n] :
        last' = Did("Access::last_access", n, guard[n][i].now, AccessLastAccess(node[n]))
    /\ UNCHANGED <<node, clock, guard, origin, elapsed>>

\* *access
ReadAccess(n) ==
    /\ \E i \in DOMAIN guard[n] :
        last' = Did("Access::deref", n, guard[n][i].now, AccessDeref(node[n]))
    /\ UNCHANGED <<node, clock, guard, origin, elapsed>>

\* *access = v
WriteAccess(n, v) ==
    /\ \E i \in DOMAIN guard[n] : guard' = [guard EXCEPT ![n][i].written = <<v>>]
    /\ node' = [node EXCEPT ![n] = AccessDerefMut(@, v)]
    /\ last' = Did("Access::deref_mut", n, NoSource, v)
    /\ UNCHANGED <<clock, origin, elapsed>>

\* the guard leaves its scope by path how, and is dropped
Drop(n, how) ==
    /\ \E i \in DOMAIN guard[n] :
        LET g == guard[n][i] IN
        /\ node' = [node EXCEPT ![n] = AccessDrop(@, g, how)]
        /\ guard' = [guard EXCEPT ![n] = RemoveAt(@, i)]
        /\ origin' = [origin EXCEPT ![n] = [by |-> "drop", now |-> g.now,
                                            stamp |-> clock[g.now]]]
        /\ last' = [op |-> "drop", node |-> n, now |-> g.now, result |-> clock[g.now],
                    exit |-> how, stores |-> Len(DropStores(g, how)),
                    before |-> g.before, advanced |-> g.advanced,
                    written |-> g.written,
                    again |-> origin[n].by = "drop" /\ origin[n].now = g.now,
                    prev |-> origin[n].now]
    /\ UNCHANGED <<clock, elapsed>>

\* node.last_access()
ReadNodeLastAccess(n) ==
    /\ Borrowable(n)
    /\ last' = Did("Node::last_access", n, NoSource, NodeLastAccess(node[n]))
    /\ UNCHANGED <<node, clock, guard, origin, elapsed>>

\* *node
ReadNode(n) ==
    /\ Borrowable(n)
    /\ last' = Did("Node::deref", n, NoSource, NodeDeref(node[n]))
    /\ UNCHANGED <<node, clock, guard, origin, elapsed>>

\* *node = v
WriteNode(n, v) ==
    /\ Borrowable(n)
    /\ node' = [node EXCEPT ![n] = NodeDerefMut(@, v)]
    /\ last' = Did("Node::deref_mut", n, NoSource, v)
    /\ UNCHANGED <<clock, guard, origin, elapsed>>

\* Mutant of ReadNow: reading the time source moves it on.
ReadNowTicks(s) ==
    /\ clock[s] < MaxTime
    /\ clock' = [clock EXCEPT ![s] = @ + 1]
    /\ last' = Did("Now::now", NoNode, s, Now(s))
    /\ UNCHANGED <<node, guard, origin, elapsed>>

\* s.now()
ReadNow(s) ==
    /\ last' = Did("Now::now", NoNode, s, Now(s))
    /\ UNCHANGED <<node, clock, guard, origin, elapsed>>

\* time passes on s: Clock::advance(d) for the test clock
Advance(s, d) ==
    /\ clock[s] + d <= MaxTime
    /\ clock' = [clock EXCEPT ![s] = @ + d]
    /\ guard' = [n \in Nodes |->
                    [i \in DOMAIN guard[n] |->
                        IF guard[n][i].now = s
                        THEN [guard[n][i] EXCEPT !.advanced = TRUE]
                        ELSE guard[n][i]]]
    /\ elapsed' = [elapsed EXCEPT ![s] = @ + d]
    /\ last' = Quiet
    /\ UNCHANGED <<node, origin>>

\* The container keeps Nodes and hands the one clock to every access.
Next ==
    \/ \E n \in Nodes, v \in Values, t \in Times : New(n, v, t) /\ UNCHANGED order
    \/ \E n \in Nodes, s \in Shared : Access(n, s) /\ UNCHANGED order
    \/ \E n \in Nodes : ReadAccessLastAccess(n) /\ UNCHANGED order
    \/ \E n \in Nodes : ReadAccess(n) /\ UNCHANGED order
    \/ \E n \in Nodes, v \in Values : WriteAccess(n, v) /\ UNCHANGED order
    \/ \E n \in Nodes, how \in ExitPaths : Drop(n, how) /\ UNCHANGED order
    \/ \E n \in Nodes : ReadNodeLastAccess(n) /\ UNCHANGED order
    \/ \E n \in Nodes : ReadNode(n) /\ UNCHANGED order
    \/ \E n \in Nodes, v \in Values : WriteNode(n, v) /\ UNCHANGED order
    \/ \E s \in Shared : ReadNow(s) /\ UNCHANGED order
    \/ \E s \in Shared, d \in Durations : Advance(s, d) /\ UNCHANGED order

Spec == Init /\ [][Next]_vars

----------------------------------------------------------------------------
\* The test's setting: every Node is made with t0 = clock.now(), the reading
\* of the clock that has not been advanced yet, and no Node is replaced.
InitTest ==
    /\ Init
    /\ \A n \in Nodes : NodeLastAccess(node[n]) = Now("clock")

NextTest ==
    \/ \E n \in Nodes, s \in Shared : Access(n, s) /\ UNCHANGED order
    \/ \E n \in Nodes : ReadAccessLastAccess(n) /\ UNCHANGED order
    \/ \E n \in Nodes : ReadAccess(n) /\ UNCHANGED order
    \/ \E n \in Nodes, v \in Values : WriteAccess(n, v) /\ UNCHANGED order
    \/ \E n \in Nodes, how \in ExitPaths : Drop(n, how) /\ UNCHANGED order
    \/ \E n \in Nodes : ReadNodeLastAccess(n) /\ UNCHANGED order
    \/ \E n \in Nodes : ReadNode(n) /\ UNCHANGED order
    \/ \E n \in Nodes, v \in Values : WriteNode(n, v) /\ UNCHANGED order
    \/ \E s \in Shared : ReadNow(s) /\ UNCHANGED order
    \/ \E s \in Shared, d \in Durations : Advance(s, d) /\ UNCHANGED order

SpecTest == InitTest /\ [][NextTest]_vars

----------------------------------------------------------------------------
\* The container's setting: a Node is inserted with a timestamp not later
\* than the reading of the clock that every access is given.
InitInserted ==
    /\ Init
    /\ \A n \in Nodes : NodeLastAccess(node[n]) <= Now("clock")

NextInserted ==
    \/ \E n \in Nodes, v \in Values, t \in Times :
        t <= Now("clock") /\ New(n, v, t) /\ UNCHANGED order
    \/ \E n \in Nodes, s \in Shared : Access(n, s) /\ UNCHANGED order
    \/ \E n \in Nodes : ReadAccessLastAccess(n) /\ UNCHANGED order
    \/ \E n \in Nodes : ReadAccess(n) /\ UNCHANGED order
    \/ \E n \in Nodes, v \in Values : WriteAccess(n, v) /\ UNCHANGED order
    \/ \E n \in Nodes, how \in ExitPaths : Drop(n, how) /\ UNCHANGED order
    \/ \E n \in Nodes : ReadNodeLastAccess(n) /\ UNCHANGED order
    \/ \E n \in Nodes : ReadNode(n) /\ UNCHANGED order
    \/ \E n \in Nodes, v \in Values : WriteNode(n, v) /\ UNCHANGED order
    \/ \E s \in Shared : ReadNow(s) /\ UNCHANGED order
    \/ \E s \in Shared, d \in Durations : Advance(s, d) /\ UNCHANGED order

SpecInserted == InitInserted /\ [][NextInserted]_vars

----------------------------------------------------------------------------
\* The same operations, with the order in which guards are made recorded.

Without(seq, x) == SelectSeq(seq, LAMBDA y : y # x)

Position(seq, x) == CHOOSE i \in DOMAIN seq : seq[i] = x

\* a guard was made on n
MadeGuard(n) == order' = [order EXCEPT !.held = Append(@, n), !.done = {}]

\* the guard on n was released: every Node holding an older guard has been
\* passed by n
ReleasedGuard(n) ==
    order' = [held |-> Without(order.held, n),
              passed |-> [m \in Nodes |->
                            IF m = n THEN {}
                            ELSE IF /\ \E i \in DOMAIN order.held : order.held[i] = m
                                    /\ Position(order.held, m) < Position(order.held, n)
                                 THEN order.passed[m] \cup {n}
                                 ELSE order.passed[m]],
              done |-> order.passed[n]]

\* no guard was made or released
SameGuards == order' = [order EXCEPT !.done = {}]

NextOrder ==
    \/ \E n \in Nodes, v \in Values, t \in Times : New(n, v, t) /\ SameGuards
    \/ \E n \in Nodes, s \in Shared : Access(n, s) /\ MadeGuard(n)
    \/ \E n \in Nodes, v \in Values : WriteAccess(n, v) /\ SameGuards
    \/ \E n \in Nodes, how \in ExitPaths : Drop(n, how) /\ ReleasedGuard(n)
    \/ \E n \in Nodes, v \in Values : WriteNode(n, v) /\ SameGuards
    \/ \E s \in Shared, d \in Durations : Advance(s, d) /\ SameGuards

SpecOrder == Init /\ [][NextOrder]_vars

----------------------------------------------------------------------------
\* One Node, whose accesses are given either time source.
Solo == {"a"}

NextSources ==
    \/ \E n \in Solo, v \in Values, t \in Times : New(n, v, t) /\ UNCHANGED order
    \/ \E n \in Solo, s \in Sources : Access(n, s) /\ UNCHANGED order
    \/ \E n \in Solo : ReadAccessLastAccess(n) /\ UNCHANGED order
    \/ \E n \in Solo : ReadAccess(n) /\ UNCHANGED order
    \/ \E n \in Solo, v \in Values : WriteAccess(n, v) /\ UNCHANGED order
    \/ \E n \in Solo, how \in ExitPaths : Drop(n, how) /\ UNCHANGED order
    \/ \E n \in Solo : ReadNodeLastAccess(n) /\ UNCHANGED order
    \/ \E n \in Solo : ReadNode(n) /\ UNCHANGED order
    \/ \E n \in Solo, v \in Values : WriteNode(n, v) /\ UNCHANGED order
    \/ \E s \in Sources : ReadNow(s) /\ UNCHANGED order
    \/ \E s \in Sources, d \in Durations : Advance(s, d) /\ UNCHANGED order

SpecSources == Init /\ [][NextSources]_vars
----------------------------------------------------------------------------
\* Steps seen by their effect on the guards of Node n.

\* a guard on n was created
Acquired(n) == Len(guard'[n]) > Len(guard[n])

\* a guard on n was released
Dropped(n) == Len(guard'[n]) < Len(guard[n])

----------------------------------------------------------------------------
\* C1: right after a guard is released, its Node's last_access is the
\* reading its time source gave at the release, also when the clock has
\* advanced since the guard was acquired.
C1_ReleaseStoresReleaseReading ==
    last.op = "drop" =>
        /\ NodeLastAccess(node[last.node]) = last.result
        /\ NodeLastAccess(node[last.node]) = Now(last.now)

\* C1 witness: a release after the clock advanced inside the access window;
\* the Node holds the later reading, which differs from what it held before.
C1_Witness ==
    /\ last.op = "drop"
    /\ last.advanced
    /\ last.result # last.before
    /\ NodeLastAccess(node[last.node]) = last.result

\* C2: while a guard is live, Access::last_access gives the timestamp the
\* Node held when the access began, and every such call returned it.
C2_GuardSeesPreAccessTimestamp ==
    /\ \A n \in Nodes : \A i \in DOMAIN guard[n] :
        AccessLastAccess(node[n]) = guard[n][i].before
    /\ last.op = "Access::last_access" =>
        \A i \in DOMAIN guard[last.node] : last.result = guard[last.node][i].before

\* C2 witness: Access::last_access was called on a guard through which the
\* value was changed and during which the clock advanced; it returned the
\* pre-access timestamp, which is not the clock's reading.
C2_Witness ==
    /\ last.op = "Access::last_access"
    /\ \E i \in DOMAIN guard[last.node] :
        LET g == guard[last.node][i] IN
        /\ g.advanced
        /\ g.written # <<>>
        /\ last.result = g.before
        /\ last.result # Now(g.now)
        /\ origin[last.node].stamp = g.before

\* C3: every step that ends a guard ends exactly one, by one of the exit
\* paths, makes exactly one store to last_access and leaves the source's
\* reading in it.
C3_ReleaseWritesOnceOnEveryPath ==
    [][\A n \in Nodes : Dropped(n) =>
        /\ Len(guard'[n]) = Len(guard[n]) - 1
        /\ last'.op = "drop" /\ last'.node = n /\ last'.exit \in ExitPaths
        /\ last'.stores = 1
        /\ NodeLastAccess(node'[n]) = clock[last'.now]]_vars

\* C3 witness: a guard released by unwinding made its one store, and the
\* store changed the timestamp.
C3_Witness ==
    /\ last.op = "drop"
    /\ last.exit = "unwind"
    /\ last.stores = 1
    /\ last.result # last.before
    /\ NodeLastAccess(node[last.node]) = last.result
    /\ Borrowable(last.node)

\* C4: a Node's last_access is the timestamp given to Node::new while no
\* guard on it has been released, and afterwards the reading taken at the
\* most recent release.
C4_LastAccessIsNewOrLastRelease ==
    \A n \in Nodes :
        /\ origin[n].by \in {"new", "drop"}
        /\ origin[n].by = "new" => NodeLastAccess(node[n]) = origin[n].stamp
        /\ origin[n].by = "drop" => NodeLastAccess(node[n]) = origin[n].stamp

\* C4 witness: a Node released at an earlier reading, written directly
\* since, keeps the release reading while the clock has moved on.
C4_Witness ==
    /\ last.op = "Node::deref_mut"
    /\ origin[last.node].by = "drop"
    /\ NodeLastAccess(node[last.node]) = origin[last.node].stamp
    /\ Now(origin[last.node].now) > origin[last.node].stamp

\* C5: no Node ever has two live guards.
C5_AtMostOneGuardPerNode == \A n \in Nodes : Len(guard[n]) <= 1

\* C5 witness: every Node is lent to a guard, and no Node can be lent again.
C5_Witness ==
    /\ \A n \in Nodes : Len(guard[n]) = 1
    /\ \A n \in Nodes : ~ ENABLED (\E s \in Sources : Access(n, s))

\* C6: once a guard is gone and the Node can be read again, the Node no
\* longer holds the pre-access timestamp if the reading at release differed
\* from it, whatever the exit path; and Node::last_access is only ever called
\* on a Node no guard holds, and returns the release reading once an access
\* has completed.
C6_ReleaseWriteBeforeNodeIsReadable ==
    /\ (last.op = "drop" /\ Borrowable(last.node) /\ last.result # last.before)
        => NodeLastAccess(node[last.node]) # last.before
    /\ last.op = "Node::last_access" =>
        /\ Borrowable(last.node)
        /\ origin[last.node].by = "drop" => last.result = origin[last.node].stamp

\* C6 witness: a guard left by early return is gone, Node::last_access can
\* be called again, and the Node holds the release reading, which is not the
\* pre-access timestamp.
C6_Witness ==
    /\ last.op = "drop"
    /\ last.exit = "early_return"
    /\ last.result # last.before
    /\ ENABLED ReadNodeLastAccess(last.node)
    /\ NodeLastAccess(node[last.node]) = last.result

\* C7: when a Node that has completed an access completes another with the
\* same time source, its last_access does not decrease.
C7_SuccessiveReleasesNonDecreasing ==
    [][\A n \in Nodes :
        (Dropped(n) /\ origin[n].by = "drop" /\ origin[n].now = last'.now)
            => NodeLastAccess(node'[n]) >= NodeLastAccess(node[n])]_vars

\* C7 witness: a second release on a Node, with the same source, stored a
\* later instant than the first.
C7_Witness ==
    /\ last.op = "drop"
    /\ last.again
    /\ NodeLastAccess(node[last.node]) > last.before

\* C8: a release leaves the value as it was, which is the last value stored
\* through the guard if one was stored.
C8_GuardWritesSurviveRelease ==
    [][\A n \in Nodes : Dropped(n) =>
        /\ NodeDeref(node'[n]) = NodeDeref(node[n])
        /\ last'.written # <<>> => NodeDeref(node'[n]) = last'.written[1]]_vars

\* C8 witness: after a release, reading the Node gives the value stored
\* through the guard.
C8_Witness ==
    /\ last.op = "drop"
    /\ last.written # <<>>
    /\ NodeDeref(node[last.node]) = last.written[1]
    /\ Borrowable(last.node)

\* C9: a step that creates a guard creates one, on a Node none held, and
\* changes neither a Node nor a clock.
C9_AccessChangesNothing ==
    [][\A n \in Nodes : Acquired(n) =>
        /\ node' = node
        /\ clock' = clock
        /\ guard[n] = <<>> /\ Len(guard'[n]) = 1
        /\ guard'[n][1].before = NodeLastAccess(node'[n])]_vars

\* C9 witness: a guard just made on a Node whose timestamp differs from the
\* reading of the guard's time source.
C9_Witness ==
    \E n \in Nodes :
        /\ Len(guard[n]) = 1
        /\ ~ guard[n][1].advanced
        /\ guard[n][1].written = <<>>
        /\ last = Quiet
        /\ NodeLastAccess(node[n]) # Now(guard[n][1].now)
        /\ NodeLastAccess(node[n]) = guard[n][1].before

\* C10: a Node's last_access changes only when a guard on it is released
\* (or the Node is replaced by a new one): reads, writes of the value
\* through the Node or a guard, and clock advances leave it alone.
C10_OnlyReleaseChangesLastAccess ==
    [][\A n \in Nodes :
        NodeLastAccess(node'[n]) # NodeLastAccess(node[n])
            => \/ Dropped(n)
               \/ \E v \in Values, t \in Times : New(n, v, t)]_vars

\* C10 witness: the value of a Node was written through a guard after the
\* clock advanced, and the timestamp is still the pre-access one.
C10_Witness ==
    /\ last.op = "Access::deref_mut"
    /\ \E i \in DOMAIN guard[last.node] :
        /\ guard[last.node][i].advanced
        /\ NodeLastAccess(node[last.node]) = guard[last.node][i].before
        /\ NodeLastAccess(node[last.node]) # Now(guard[last.node][i].now)
\* C11: Node::new(v, t0) has last_access t0 and value v for every v and t0,
\* and Node::last_access called on a Node no guard has been released on
\* returns the timestamp Node::new was given.
C11_NewKeepsValueAndTimestamp ==
    /\ \A v \in Values, t \in Times :
        /\ NodeLastAccess(NodeNew(v, t)) = t
        /\ NodeDeref(NodeNew(v, t)) = v
    /\ (last.op = "Node::last_access" /\ origin[last.node].by = "new")
        => last.result = origin[last.node].stamp

\* C11 witness: Node::last_access returned the timestamp given to Node::new,
\* which is later than anything the clock has reported.
C11_Witness ==
    /\ last.op = "Node::last_access"
    /\ origin[last.node].by = "new"
    /\ last.result = origin[last.node].stamp
    /\ last.result > Now("clock")
    /\ NodeDeref(node[last.node]) \in Values
\* C12: with the clock started at t0 and every Node made with t0, a Node
\* holds t0 until its first release, the first guard on it sees t0, and
\* right after every release the Node holds t0 plus the sum of the advances
\* applied to the clock so far.
C12_LastAccessAccumulatesAdvances ==
    /\ \A n \in Nodes : origin[n].by = "new" => NodeLastAccess(node[n]) = Epoch
    /\ (last.op = "drop" /\ ~ last.again) => last.before = Epoch
    /\ last.op = "drop" =>
        NodeLastAccess(node[last.node]) = Epoch + elapsed[last.now]

\* C12 witness: the second release on a Node, after advances of 1 and then
\* 2 more; the first release had stored t0 + 1, this one stores t0 + 3.
C12_Witness ==
    /\ last.op = "drop"
    /\ last.again
    /\ last.before = Epoch + 1
    /\ elapsed[last.now] = 3
    /\ NodeLastAccess(node[last.node]) = Epoch + 3
\* C13 as stated: Node::new and Node::last_access are enabled in every
\* state, Node::access whenever no guard is live on the Node, the release of
\* every live guard, and some step is always possible.
C13_AsStated ==
    /\ \A v \in Values, t \in Times : NodeNew(v, t) \in [value : Values, last_access : Times]
    /\ \A n \in Nodes :
        /\ ENABLED ReadNodeLastAccess(n)
        /\ guard[n] = <<>> => \A s \in Shared : ENABLED Access(n, s)
        /\ guard[n] # <<>> => \A how \in ExitPaths : ENABLED Drop(n, how)
    /\ ENABLED Next

\* C13 amended: Node::new is total; on a Node no guard holds, Node::new (to
\* replace it), Node::last_access and Node::access are enabled; on a Node a
\* guard holds, Access::last_access and the release by every exit path are
\* enabled; every Node is a well-formed Node and some step is always possible.
C13_TotalWhereBorrowAllows ==
    /\ \A v \in Values, t \in Times : NodeNew(v, t) \in [value : Values, last_access : Times]
    /\ \A n \in Nodes :
        /\ node[n] \in [value : Values, last_access : Times]
        /\ guard[n] = <<>> =>
            /\ ENABLED ReadNodeLastAccess(n)
            /\ \A s \in Shared : ENABLED Access(n, s)
            /\ \A v \in Values, t \in Times : ENABLED New(n, v, t)
        /\ guard[n] # <<>> =>
            /\ ENABLED ReadAccessLastAccess(n)
            /\ \A how \in ExitPaths : ENABLED Drop(n, how)
    /\ ENABLED Next

\* C13 witness: one Node is held by a guard that saw a timestamp later than
\* the clock's reading and can be released by unwinding; the other Node has
\* completed an access and can be read and lent again.
C13_Witness ==
    \E n \in Nodes, m \in Nodes :
        /\ guard[n] # <<>>
        /\ guard[n][1].before > Now(guard[n][1].now)
        /\ ENABLED Drop(n, "unwind")
        /\ ~ ENABLED ReadNodeLastAccess(n)
        /\ guard[m] = <<>>
        /\ origin[m].by = "drop"
        /\ ENABLED ReadNodeLastAccess(m)
        /\ \A s \in Shared : ENABLED Access(m, s)
\* C14: a step in which now() is called on a time source changes no clock,
\* no Node and no guard, and returns the source's reading: the same as a
\* call just before it returned, and the same as the timestamp a release
\* just before it stored from that source.
C14_NowIsPureQuery ==
    [][\A s \in Sources : (last'.op = "Now::now" /\ last'.now = s) =>
        /\ clock' = clock /\ node' = node /\ guard' = guard
        /\ last'.result = Now(s)
        /\ (last.op = "Now::now" /\ last.now = s) => last'.result = last.result
        /\ (last.op = "drop" /\ last.now = s)
            => last'.result = NodeLastAccess(node'[last.node])]_vars

\* C14 witness: now() was called after a release and no advance since; it
\* returned the timestamp the release stored, which is past the epoch.
C14_Witness ==
    /\ last.op = "Now::now"
    /\ last.result > Epoch
    /\ \E n \in Nodes :
        /\ guard[n] = <<>>
        /\ origin[n].by = "drop" /\ origin[n].now = last.now
        /\ origin[n].stamp = last.result
        /\ NodeLastAccess(node[n]) = last.result
\* C15: right after a guard is released, its Node's last_access is at least
\* that of every other Node whose last access was completed, with the same
\* time source, before this release.
C15_TimestampsFollowReleaseOrder ==
    last.op = "drop" =>
        \A m \in Nodes \ {last.node} :
            (origin[m].by = "drop" /\ origin[m].now = last.now)
                => NodeLastAccess(node[last.node]) >= NodeLastAccess(node[m])

\* C15 witness: the guard just released on a Node was made before the last
\* guard on another Node and released after it; the Node released last
\* holds the later timestamp.
C15_Witness ==
    /\ last.op = "drop"
    /\ \E m \in order.done :
        /\ m # last.node
        /\ guard[m] = <<>>
        /\ origin[m].by = "drop" /\ origin[m].now = last.now
        /\ NodeLastAccess(node[last.node]) > NodeLastAccess(node[m])
\* C16: when every Node is made with a timestamp not later than the clock's
\* reading and every access is given that clock, no Node's last_access is
\* ever later than the clock's reading.
C16_LastAccessNotAfterNow ==
    \A n \in Nodes : NodeLastAccess(node[n]) <= Now("clock")

\* C16 witness: one Node has completed an access and has been idle since
\* (the clock has moved on), the other was inserted after the epoch with a
\* timestamp earlier than the clock's reading.
C16_Witness ==
    \E n \in Nodes, m \in Nodes :
        /\ origin[n].by = "drop"
        /\ NodeLastAccess(node[n]) > Epoch
        /\ NodeLastAccess(node[n]) < Now("clock")
        /\ origin[m].by = "new"
        /\ NodeLastAccess(node[m]) > Epoch
        /\ NodeLastAccess(node[m]) < Now("clock")
\* C17: a guard made by access(s) keeps s, and its release stores the
\* reading of that source: not the reading of any other source that reads
\* differently, whichever source released the Node before.
C17_ReleaseReadsItsOwnSource ==
    [][\A n \in Nodes :
        /\ \A s \in Sources : Access(n, s) => guard'[n][Len(guard'[n])].now = s
        /\ Dropped(n) =>
            /\ NodeLastAccess(node'[n]) = clock[guard[n][1].now]
            /\ \A s \in Sources \ {guard[n][1].now} :
                clock[s] # clock[guard[n][1].now] => NodeLastAccess(node'[n]) # clock[s]]_vars

\* C17 witness: a Node released with source "clock" was then accessed with
\* source "other", which reads earlier; the release stored the reading of
\* "other", earlier than the timestamp the first release had stored.
C17_Witness ==
    /\ last.op = "drop"
    /\ last.now = "other"
    /\ last.prev = "clock"
    /\ NodeLastAccess(node[last.node]) = Now("other")
    /\ NodeLastAccess(node[last.node]) < last.before
    /\ last.before <= Now("clock")
====
